---- MODULE Spec2Model ----
(* A model of concatenate_directory_tree (src/context_creator.py): one run of *)
(* the tree concatenator over a directory tree, with its five filters, the    *)
(* output stream and the two counters.                                         *)
EXTENDS Integers, Sequences, FiniteSets, TLC

(* ------------------------------------------------------------------------ *)
(* Bounds of the model.                                                      *)
(* ------------------------------------------------------------------------ *)

\* the largest number of entries a caller puts in one filter list
MaxFilterLen == 1

\* the largest number of source files whose read fails in one run
MaxReadFailures == 1

(* ------------------------------------------------------------------------ *)
(* Names.  A name is a sequence of one-character strings, so that Python's   *)
(* `in` and str.endswith are computed and not assumed.                       *)
(* ------------------------------------------------------------------------ *)

\* a parameter left at its default, and a parameter given a list (whose order
\* and repetitions no filter looks at)
None == [given |-> FALSE]
List(S) == [given |-> TRUE, list |-> S]

\* a byte of a file name that is no UTF-8: os.walk hands it over as a lone
\* surrogate, which the utf-8 codec of the output stream refuses to encode
Surrogate == "U+DCFF"

Dot == <<".">>
src == <<"s", "r", "c">>
lib == <<"l", "i", "b">>
nm == <<"n", "m">>
nmx == <<"n", "m", "x">>
a_py == <<"a", ".", "p", "y">>
b_log == <<"b", ".", "l", "o", "g">>
t_a_py == <<"t", "_", "a", ".", "p", "y">>
m_py == <<"m", ".", "p", "y">>
c_js == <<"c", ".", "j", "s">>
log == <<"l", "o", "g">>
bad_py == <<Surrogate, ".", "p", "y">>

\* s[i..] starts with p
StartsAt(s, p, i) ==
    /\ i + Len(p) - 1 <= Len(s)
    /\ \A k \in 1..Len(p) : s[i + k - 1] = p[k]

\* Python's `pattern in name` on strings (the empty pattern is in every name)
Contains(pattern, name) == \E i \in 1..(Len(name) + 1) : StartsAt(name, pattern, i)

\* Python's name.endswith(suffix)
EndsWith(name, suffix) ==
    /\ Len(suffix) <= Len(name)
    /\ StartsAt(name, suffix, Len(name) - Len(suffix) + 1)

\* f".{ext}"
DotExt(ext) == <<".">> \o ext

(* ------------------------------------------------------------------------ *)
(* Paths are sequences of names (their components).                          *)
(* ------------------------------------------------------------------------ *)

\* os.path.join(current_dir, filename)
Join(dir, name) == Append(dir, name)

\* os.path.basename(current_dir)
Basename(path) == path[Len(path)]

\* os.path.relpath(file_path, root_directory), for a path under the root
RelPath(path, root) == SubSeq(path, Len(root) + 1, Len(path))

\* can the utf-8 output stream (errors strict) encode the text of this path
Encodable(path) == \A i \in 1..Len(path) : \A k \in 1..Len(path[i]) : path[i][k] # Surrogate

(* ------------------------------------------------------------------------ *)
(* The directory trees a run is started on: the listing of each directory,   *)
(* keyed by its path relative to the root, in the order the file system      *)
(* reports it.                                                                *)
(* ------------------------------------------------------------------------ *)

Listing(subdirs, files) == [subdirs |-> subdirs, files |-> files]

TreeA ==
    [root |-> <<Dot>>,
     ls |-> (<<>> :> Listing(<<nm, src, nmx>>, <<a_py, b_log>>))
         @@ (<<nmx>> :> Listing(<<>>, <<t_a_py>>))
         @@ (<<nm>> :> Listing(<<src>>, <<c_js>>))
         @@ (<<nm, src>> :> Listing(<<>>, <<m_py>>))
         @@ (<<src>> :> Listing(<<lib>>, <<m_py, t_a_py>>))
         @@ (<<src, lib>> :> Listing(<<>>, <<a_py>>))]

TreeB ==
    [root |-> <<lib>>,
     ls |-> (<<>> :> Listing(<<src, lib>>, <<log>>))
         @@ (<<src>> :> Listing(<<>>, <<t_a_py, bad_py, a_py>>))
         @@ (<<lib>> :> Listing(<<nm>>, <<t_a_py>>))
         @@ (<<lib, nm>> :> Listing(<<>>, <<b_log>>))]

TreeEmpty ==
    [root |-> <<src>>,
     ls |-> (<<>> :> Listing(<<>>, <<>>))]

Trees == {TreeA, TreeB, TreeEmpty}

(* ------------------------------------------------------------------------ *)
(* The arguments of a call.                                                   *)
(* ------------------------------------------------------------------------ *)

UpTo(pool) == {None} \cup {List(S) : S \in {T \in SUBSET pool : Cardinality(T) <= MaxFilterLen}}

ExtensionPool == {log, <<"p", "y">>}
DirectoryPool == {nm, lib}
IncludedDirectoryPool == {src, <<"i">>}
IncludedFilePool == {<<"t", "_">>, <<"a">>}
FilePatternPool == {<<"t", "_">>, <<"m">>}

(* ------------------------------------------------------------------------ *)
(* What is written to the output stream, one element per output.write call.  *)
(* ------------------------------------------------------------------------ *)

Separator == [kind |-> "separator"]
FileLine(relative_path) == [kind |-> "file", path |-> relative_path]
Content(relative_path) == [kind |-> "content", path |-> relative_path]
ErrorLine(relative_path) == [kind |-> "error", path |-> relative_path]
TwoNewlines == [kind |-> "newlines"]
PriorContent == [kind |-> "prior"]

VARIABLES
    tree,                   \* the directory tree under root_directory
    call,                   \* history: the five filter arguments as the caller passed them
    pc,                     \* "start", "opening", "walk", "files", "done", "raised"
    excluded_extensions,    \* the five filter parameters, rebound at lines 49-53
    excluded_directories,
    included_directories,
    included_files,
    excluded_file_patterns,
    files_processed,
    files_skipped,
    stream,                 \* the output stream: "unopened", "open", "closed"
    output,                 \* the content of the file at output_path
    stack,                  \* os.walk: the directories still to visit, next first
    current_dir,            \* the directory os.walk yielded last
    files,                  \* the file names of current_dir not yet looped over
    visited,                \* history: the directories os.walk listed, in order
    readLog,                \* history: the relative paths opened for reading
    opens,                  \* history: how often the output path was opened
    summary                 \* what lines 106-107 printed

vars == <<tree, call, pc, excluded_extensions, excluded_directories, included_directories,
          included_files, excluded_file_patterns, files_processed, files_skipped,
          stream, output, stack, current_dir, files, visited, readLog, opens, summary>>

filters == <<excluded_extensions, excluded_directories, included_directories,
             included_files, excluded_file_patterns>>
counters == <<files_processed, files_skipped>>
walk == <<stack, current_dir, files, visited>>

Init ==
    /\ tree \in Trees
    /\ pc = "start"
    /\ excluded_extensions \in UpTo(ExtensionPool)
    /\ excluded_directories \in UpTo(DirectoryPool)
    /\ included_directories \in UpTo(IncludedDirectoryPool)
    /\ included_files \in UpTo(IncludedFilePool)
    /\ excluded_file_patterns \in UpTo(FilePatternPool)
    /\ call = [excluded_extensions |-> excluded_extensions,
               excluded_directories |-> excluded_directories,
               included_directories |-> included_directories,
               included_files |-> included_files,
               excluded_file_patterns |-> excluded_file_patterns]
    /\ files_processed = 0
    /\ files_skipped = 0
    /\ stream = "unopened"
    /\ output = <<PriorContent>>
    /\ stack = <<>>
    /\ current_dir = <<>>
    /\ files = <<>>
    /\ visited = <<>>
    /\ readLog = <<>>
    /\ opens = 0
    /\ summary = [printed |-> FALSE]

\* `x or []`
OrEmpty(x) == IF x.given THEN x.list ELSE {}

\* lines 49-56: the defaults of the filters and the two counters
Begin ==
    /\ pc = "start"
    /\ excluded_extensions' = OrEmpty(excluded_extensions)
    /\ excluded_directories' = OrEmpty(excluded_directories)
    /\ included_directories' = OrEmpty(included_directories)
    /\ included_files' = OrEmpty(included_files)
    /\ excluded_file_patterns' = OrEmpty(excluded_file_patterns)
    /\ files_processed' = 0
    /\ files_skipped' = 0
    /\ pc' = "opening"
    /\ UNCHANGED <<tree, call, stream, output, walk, readLog, opens, summary>>

\* line 58, open(output_path, "w") succeeds: the file is truncated; line 59
\* starts os.walk at the root
OpenOk ==
    /\ pc = "opening"
    /\ stream' = "open"
    /\ opens' = opens + 1
    /\ output' = <<>>
    /\ stack' = <<tree.root>>
    /\ pc' = "walk"
    /\ UNCHANGED <<tree, call, filters, counters, current_dir, files, visited, readLog, summary>>

\* line 58, open(output_path, "w") raises: the exception leaves the function
OpenFail ==
    /\ pc = "opening"
    /\ pc' = "raised"
    /\ UNCHANGED <<tree, call, filters, counters, stream, output, walk, readLog, opens, summary>>

\* line 61 without the filter
KeepAll(subdirs) == subdirs

\* line 61: the subdirectories os.walk goes on to
Pruned(subdirs) == SelectSeq(subdirs, LAMBDA d : d \notin excluded_directories)

\* lines 64-67 with a gate that a directory inherits from the directories above
PassesGateInherited(dir) ==
    included_directories # {} =>
        \E pattern \in included_directories :
            \E i \in 1..Len(dir) : Contains(pattern, dir[i])

\* lines 64-67: does the directory pass the inclusion gate
PassesGate(dir) ==
    included_directories # {} =>
        \E pattern \in included_directories : Contains(pattern, Basename(dir))

\* the paths of the subdirectories of dir, in order
Children(dir, subdirs) == [i \in 1..Len(subdirs) |-> Join(dir, subdirs[i])]

\* a walk that takes the waiting directories first
PushBehind(children, waiting) == waiting \o children

\* os.walk goes depth first: the subdirectories of the directory it yielded are
\* walked before the directories that were already waiting
Push(children, waiting) == children \o waiting

\* the loop at line 69 goes on with the next file name, or is over
AfterFile(rest) == IF rest = <<>> THEN "walk" ELSE "files"

\* lines 59-67: os.walk yields the next directory with its listing; the loop
\* body prunes the subdirectories and either skips the directory (line 67) or
\* enters the loop over its files
WalkNext ==
    /\ pc = "walk"
    /\ stack # <<>>
    /\ LET top == Head(stack)
           listing == tree.ls[RelPath(top, tree.root)]
       IN /\ visited' = Append(visited, top)
          /\ stack' = Push(Children(top, Pruned(listing.subdirs)), Tail(stack))
          /\ current_dir' = top
          /\ IF PassesGate(top)
             THEN /\ files' = listing.files
                  /\ pc' = AfterFile(listing.files)
             ELSE /\ files' = <<>>
                  /\ pc' = "walk"
    /\ UNCHANGED <<tree, call, filters, counters, stream, output, readLog, opens, summary>>

\* line 71
ExtensionExcluded(filename) ==
    \E ext \in excluded_extensions : EndsWith(filename, DotExt(ext))

\* line 76 with the inclusion list overruling the exclusion
PatternExcludedUnlessIncluded(filename) ==
    /\ \E pattern \in excluded_file_patterns : Contains(pattern, filename)
    /\ ~ \E pattern \in included_files : Contains(pattern, filename)

\* line 76
PatternExcluded(filename) ==
    \E pattern \in excluded_file_patterns : Contains(pattern, filename)

\* lines 81-82
NotIncluded(filename) ==
    /\ included_files # {}
    /\ ~ \E pattern \in included_files : Contains(pattern, filename)

\* a skip decision that forgets the counter
SkipUncounted ==
    /\ files' = Tail(files)
    /\ pc' = AfterFile(Tail(files))
    /\ UNCHANGED <<tree, call, filters, counters, stream, output, stack, current_dir,
                   visited, readLog, opens, summary>>

\* a skip decision: the counter goes up and the loop continues
Skip ==
    /\ files_skipped' = files_skipped + 1
    /\ files' = Tail(files)
    /\ pc' = AfterFile(Tail(files))
    /\ UNCHANGED <<tree, call, filters, files_processed, stream, output, stack, current_dir,
                   visited, readLog, opens, summary>>

\* lines 71-73
SkipExtension ==
    /\ pc = "files"
    /\ ExtensionExcluded(Head(files))
    /\ Skip

\* lines 76-78
SkipPattern ==
    /\ pc = "files"
    /\ ~ ExtensionExcluded(Head(files))
    /\ PatternExcluded(Head(files))
    /\ Skip

\* lines 81-84
SkipNotIncluded ==
    /\ pc = "files"
    /\ ~ ExtensionExcluded(Head(files))
    /\ ~ PatternExcluded(Head(files))
    /\ NotIncluded(Head(files))
    /\ Skip

\* the file name reaches line 86
Survives(filename) ==
    /\ ~ ExtensionExcluded(filename)
    /\ ~ PatternExcluded(filename)
    /\ ~ NotIncluded(filename)

\* lines 86-87
RelativePath(filename) == RelPath(Join(current_dir, filename), tree.root)

\* lines 92-94
Header(relative_path) == <<Separator, FileLine(relative_path), Separator>>

ReadFailures == Cardinality({i \in 1..Len(output) : output[i].kind = "error"})

\* lines 86-99, 104: the header, the content read from the file, two newlines
ReadOk ==
    /\ pc = "files"
    /\ Survives(Head(files))
    /\ LET relative_path == RelativePath(Head(files))
       IN /\ Encodable(relative_path)
          /\ output' = output \o Header(relative_path)
                              \o <<Content(relative_path), TwoNewlines>>
          /\ readLog' = Append(readLog, relative_path)
    /\ files_processed' = files_processed + 1
    /\ files' = Tail(files)
    /\ pc' = AfterFile(Tail(files))
    /\ UNCHANGED <<tree, call, filters, files_skipped, stream, stack, current_dir, visited,
                   opens, summary>>

\* lines 86-104 with the failed read counted as processed: files_processed += 1
\* placed after the try statement
ReadFailCountedProcessed ==
    /\ pc = "files"
    /\ Survives(Head(files))
    /\ ReadFailures < MaxReadFailures
    /\ LET relative_path == RelativePath(Head(files))
       IN /\ Encodable(relative_path)
          /\ output' = output \o Header(relative_path)
                              \o <<ErrorLine(relative_path), TwoNewlines>>
          /\ readLog' = Append(readLog, relative_path)
    /\ files_skipped' = files_skipped + 1
    /\ files_processed' = files_processed + 1
    /\ files' = Tail(files)
    /\ pc' = AfterFile(Tail(files))
    /\ UNCHANGED <<tree, call, filters, stream, stack, current_dir, visited,
                   opens, summary>>

\* lines 86-97, 100-104: open or read raises; the error line stands for the
\* content and the file counts as skipped
ReadFail ==
    /\ pc = "files"
    /\ Survives(Head(files))
    /\ ReadFailures < MaxReadFailures
    /\ LET relative_path == RelativePath(Head(files))
       IN /\ Encodable(relative_path)
          /\ output' = output \o Header(relative_path)
                              \o <<ErrorLine(relative_path), TwoNewlines>>
          /\ readLog' = Append(readLog, relative_path)
    /\ files_skipped' = files_skipped + 1
    /\ files' = Tail(files)
    /\ pc' = AfterFile(Tail(files))
    /\ UNCHANGED <<tree, call, filters, files_processed, stream, stack, current_dir, visited,
                   opens, summary>>

\* lines 89-93 with a relative path the codec cannot encode: print (a strict
\* stdout) or the write of the File line raises UnicodeEncodeError outside the
\* try; the with statement closes the stream and the exception leaves the
\* function
EncodeRaises ==
    /\ pc = "files"
    /\ Survives(Head(files))
    /\ ~ Encodable(RelativePath(Head(files)))
    /\ \E printRaises \in BOOLEAN :
          output' = IF printRaises THEN output ELSE Append(output, Separator)
    /\ stream' = "closed"
    /\ pc' = "raised"
    /\ UNCHANGED <<tree, call, filters, counters, walk, readLog, opens, summary>>

\* lines 105-107 without the with statement: nothing closes the stream
FinishWithoutClose ==
    /\ pc = "walk"
    /\ stack = <<>>
    /\ summary' = [printed |-> TRUE, files_processed |-> files_processed,
                   files_skipped |-> files_skipped]
    /\ pc' = "done"
    /\ UNCHANGED <<tree, call, filters, counters, stream, output, walk, readLog, opens>>

\* lines 105-107: os.walk is exhausted; the with statement closes the stream
\* and the summary is printed
Finish ==
    /\ pc = "walk"
    /\ stack = <<>>
    /\ stream' = "closed"
    /\ summary' = [printed |-> TRUE, files_processed |-> files_processed,
                   files_skipped |-> files_skipped]
    /\ pc' = "done"
    /\ UNCHANGED <<tree, call, filters, counters, output, walk, readLog, opens>>

Next ==
    \/ Begin
    \/ OpenOk
    \/ OpenFail
    \/ WalkNext
    \/ SkipExtension
    \/ SkipPattern
    \/ SkipNotIncluded
    \/ ReadOk
    \/ ReadFail
    \/ EncodeRaises
    \/ Finish

Spec == Init /\ [][Next]_vars

TypeOK ==
    /\ pc \in {"start", "opening", "walk", "files", "done", "raised"}
    /\ stream \in {"unopened", "open", "closed"}
    /\ files_processed \in Nat
    /\ files_skipped \in Nat

(* ------------------------------------------------------------------------ *)
(* What the properties speak of: the tree and the filters as the caller      *)
(* passed them, and what the output holds.                                    *)
(* ------------------------------------------------------------------------ *)

\* the strings of a filter argument; an absent and an empty list restrict nothing
Strings(arg) == IF arg.given THEN arg.list ELSE {}

\* the directories of the tree, as paths relative to the root
Directories == DOMAIN tree.ls

\* the name the inclusion gate looks at
NameOf(d) == IF d = <<>> THEN tree.root[Len(tree.root)] ELSE d[Len(d)]

\* d is, or lies under, a directory whose name is excluded
UnderExcluded(d) == \E i \in 1..Len(d) : d[i] \in Strings(call.excluded_directories)

\* d passes the directory inclusion gate
GateOpen(d) ==
    \/ Strings(call.included_directories) = {}
    \/ \E s \in Strings(call.included_directories) : Contains(s, NameOf(d))

\* the file name matches an excluded extension or an excluded pattern
NameExcluded(f) ==
    \/ \E e \in Strings(call.excluded_extensions) : EndsWith(f, <<".">> \o e)
    \/ \E s \in Strings(call.excluded_file_patterns) : Contains(s, f)

\* the file name contains a string of included_files
NameIncluded(f) == \E s \in Strings(call.included_files) : Contains(s, f)

\* the file name passes the three file filters
NameAdmitted(f) ==
    /\ ~ NameExcluded(f)
    /\ Strings(call.included_files) = {} \/ NameIncluded(f)

\* the files listed in directory d, as paths relative to the root
FilesIn(d) == {Append(d, tree.ls[d].files[i]) : i \in 1..Len(tree.ls[d].files)}

\* all the files of the tree
AllFiles == UNION {FilesIn(d) : d \in Directories}

\* the directory of a file, and its name
DirOf(path) == SubSeq(path, 1, Len(path) - 1)
FileName(path) == path[Len(path)]

\* the relative paths of the directories visited so far
VisitedDirs == {RelPath(visited[i], tree.root) : i \in 1..Len(visited)}

\* the number of file names listed in a set of directories
RECURSIVE Listed(_)
Listed(D) ==
    IF D = {} THEN 0
    ELSE LET d == CHOOSE x \in D : TRUE
         IN Len(tree.ls[d].files) + Listed(D \ {d})

\* the positions of the File lines of the output, and the paths they carry
FileLines == {i \in 1..Len(output) : output[i].kind = "file"}
HeaderPaths == {output[i].path : i \in FileLines}
ReadPaths == {readLog[i] : i \in 1..Len(readLog)}

\* the run got past the defaults at lines 49-53
Running == pc \notin {"start", "opening"}

(* ------------------------------------------------------------------------ *)
(* C1.  Count conservation.                                                   *)
(* ------------------------------------------------------------------------ *)

\* C1 as claimed: at the end of a run, files_processed + files_skipped is the
\* number of file names listed in all the directories the traversal visited,
\* whether or not they pass the directory inclusion gate.
C1_CountsAllVisited ==
    pc = "done" => files_processed + files_skipped = Listed(VisitedDirs)

\* C1, amended: files_processed + files_skipped always is the number of file
\* names the loop has dealt with so far, all of them listed in visited
\* directories that pass the directory inclusion gate; at the end of a run that
\* reports its summary it is the number of file names listed in the visited
\* directories that pass the gate, and that is what the summary reports.
C1_CountConservation ==
    /\ Running =>
         files_processed + files_skipped + Len(files)
             = Listed({d \in VisitedDirs : GateOpen(d)})
    /\ pc = "done" =>
         /\ files = <<>>
         /\ summary.files_processed + summary.files_skipped
                = Listed({d \in VisitedDirs : GateOpen(d)})

\* a finished run that visited a directory with files that fails the gate, and
\* counted files of other directories
C1_Witness ==
    /\ pc = "done"
    /\ \E d \in VisitedDirs : ~ GateOpen(d) /\ tree.ls[d].files # <<>>
    /\ files_processed > 0
    /\ files_skipped > 0

(* ------------------------------------------------------------------------ *)
(* C2.  Directory pruning.                                                    *)
(* ------------------------------------------------------------------------ *)

\* C2: no file under a directory of the tree whose name is in
\* excluded_directories gets a header or is read, and no such directory, nor
\* any directory under it, is visited, whatever the other four filters are.
C2_PruningIsAbsolute ==
    Running =>
        /\ \A d \in VisitedDirs : ~ UnderExcluded(d)
        /\ \A p \in HeaderPaths : ~ UnderExcluded(DirOf(p))
        /\ \A p \in ReadPaths : ~ UnderExcluded(DirOf(p))

\* a finished run over a tree with an excluded directory that holds a
\* subdirectory, in which files outside it were written
C2_Witness ==
    /\ pc = "done"
    /\ \E d \in Directories :
          /\ UnderExcluded(d)
          /\ UnderExcluded(DirOf(d))
          /\ tree.ls[d].files # <<>>
    /\ files_processed > 0

(* ------------------------------------------------------------------------ *)
(* The order of a depth-first walk, and the blocks of the output.            *)
(* ------------------------------------------------------------------------ *)

RECURSIVE Concat(_)
Concat(seqs) == IF seqs = <<>> THEN <<>> ELSE Head(seqs) \o Concat(Tail(seqs))

\* the files the loop deals with in the subtree of d when the walk is depth
\* first: those of d itself if d passes the gate, then those of the subtree of
\* each subdirectory that is not excluded, one subtree after the other
RECURSIVE Preorder(_)
Preorder(d) ==
    LET own == IF GateOpen(d)
               THEN [i \in 1..Len(tree.ls[d].files) |-> Append(d, tree.ls[d].files[i])]
               ELSE <<>>
        kept == SelectSeq(tree.ls[d].subdirs,
                          LAMBDA n : n \notin Strings(call.excluded_directories))
    IN own \o Concat([i \in 1..Len(kept) |-> Preorder(Append(d, kept[i]))])

LoopOrder == Preorder(<<>>)
AdmittedOrder == SelectSeq(LoopOrder, LAMBDA p : NameAdmitted(FileName(p)))

\* the paths whose read failed: those with an error line in the output
Failed == {output[i].path : i \in {j \in 1..Len(output) : output[j].kind = "error"}}

\* the block of one file: header, content or error line, two newlines
Block(p) ==
    <<Separator, FileLine(p), Separator,
      IF p \in Failed THEN ErrorLine(p) ELSE Content(p), TwoNewlines>>

Blocks(paths) == Concat([i \in 1..Len(paths) |-> Block(paths[i])])

\* the paths of the File lines of the output, in the order of the output
HeaderOrder ==
    LET lines == SelectSeq(output, LAMBDA w : w.kind = "file")
    IN [i \in 1..Len(lines) |-> lines[i].path]

\* the output path was opened
Opened == stream # "unopened"

(* ------------------------------------------------------------------------ *)
(* C3.  Exclusion precedence.                                                 *)
(* ------------------------------------------------------------------------ *)

\* the step of the loop at line 69 for a file name the filters reject: it is
\* counted as skipped, nothing is written and nothing is read
SkippedStep ==
    /\ files_skipped' = files_skipped + 1
    /\ files_processed' = files_processed
    /\ output' = output
    /\ readLog' = readLog
    /\ files' = Tail(files)

\* C3: a file name that matches an excluded extension or an excluded pattern is
\* skipped (counted in files_skipped, no header, not read) even when it contains
\* a string of included_files; a name that matches neither is skipped exactly
\* when included_files is non-empty and holds no string of the name, and is
\* written otherwise; no excluded name ever has a header or is read.
C3_ExclusionPrecedence ==
    /\ [](\A p \in HeaderPaths \cup ReadPaths : ~ NameExcluded(FileName(p)))
    /\ [][pc = "files" =>
            IF NameExcluded(Head(files)) \/ ~ NameAdmitted(Head(files))
            THEN SkippedStep
            ELSE \/ pc' = "raised"
                 \/ readLog' = Append(readLog, Append(RelPath(current_dir, tree.root),
                                                      Head(files)))]_vars

\* a finished run that skipped a file whose name is excluded and also contains
\* a string of included_files
C3_Witness ==
    /\ pc = "done"
    /\ \E d \in VisitedDirs :
          /\ GateOpen(d)
          /\ \E p \in FilesIn(d) :
                /\ NameExcluded(FileName(p))
                /\ NameIncluded(FileName(p))
                /\ p \notin HeaderPaths
    /\ files_skipped > 0
    /\ files_processed > 0

(* ------------------------------------------------------------------------ *)
(* C4.  Default pass-through.                                                 *)
(* ------------------------------------------------------------------------ *)

NoFilters ==
    /\ Strings(call.excluded_extensions) = {}
    /\ Strings(call.excluded_directories) = {}
    /\ Strings(call.included_directories) = {}
    /\ Strings(call.included_files) = {}
    /\ Strings(call.excluded_file_patterns) = {}

\* C4: when a run whose five filter lists are empty or absent has ended after
\* opening its output, every file of the tree has exactly one File line in the
\* output, carrying its path relative to the root, and files_skipped is the
\* number of files whose read failed.
C4_DefaultPassThrough ==
    (stream = "closed" /\ NoFilters) =>
        /\ \A p \in AllFiles : Cardinality({i \in FileLines : output[i].path = p}) = 1
        /\ files_skipped = Cardinality(Failed)

\* C4 for the runs that report their summary
C4_WhenFinished == pc = "done" => C4_DefaultPassThrough

(* ------------------------------------------------------------------------ *)
(* C5.  Error isolation.                                                      *)
(* ------------------------------------------------------------------------ *)

\* C5: a run in which the read of a source file failed does not abort: when it
\* has ended, the output holds one block for every file that passes the
\* filters, in the order of a run without failures, the block of a failed file
\* holding the error line in place of the content; the failed files are counted
\* in files_skipped and all the others that pass the filters in files_processed.
C5_ErrorIsolation ==
    (stream = "closed" /\ Failed # {}) =>
        /\ pc = "done"
        /\ output = Blocks(AdmittedOrder)
        /\ files_processed = Len(AdmittedOrder) - Cardinality(Failed)
        /\ files_skipped = Len(LoopOrder) - files_processed

\* C5 for the runs that report their summary
C5_WhenFinished == pc = "done" => C5_ErrorIsolation

(* ------------------------------------------------------------------------ *)
(* C6.  Output and skip decisions.                                            *)
(* ------------------------------------------------------------------------ *)

\* no path has two File lines
OneHeaderEach == \A i, j \in FileLines : output[i].path = output[j].path => i = j

\* C6 as claimed: a finished run holds exactly one block for every visited file
\* that passes the filters, in traversal order, no file has two blocks, and a
\* step that counts a file in files_skipped neither opens it for reading nor
\* writes its header.
C6_SkippedNeverReadNorWritten ==
    [][/\ pc' = "done" => (output' = Blocks(AdmittedOrder)' /\ OneHeaderEach')
       /\ files_skipped' # files_skipped => (output' = output /\ readLog' = readLog)]_vars

\* C6, amended: of the file names the loop has dealt with, exactly those that
\* pass the three filters have a block in the output (header, then the content
\* or, when the read failed, the error line, then two newlines), in traversal
\* order, and exactly those were opened for reading; no file has two headers;
\* files_processed counts the blocks with content, and files_skipped counts the
\* names a filter rejected, which have no header and were never opened, and the
\* files whose read failed, which do have a header.
C6_OutputAndSkips ==
    Opened =>
        LET dealt == SubSeq(LoopOrder, 1, files_processed + files_skipped)
            blocks == SelectSeq(dealt, LAMBDA p : NameAdmitted(FileName(p)))
        IN /\ files_processed + files_skipped <= Len(LoopOrder)
           /\ \/ output = Blocks(blocks)
              \/ pc = "raised" /\ output = Append(Blocks(blocks), Separator)
           /\ readLog = blocks
           /\ OneHeaderEach
           /\ files_processed = Len(blocks) - Cardinality(Failed)
           /\ files_skipped = (Len(dealt) - Len(blocks)) + Cardinality(Failed)

\* a finished run with a file that a filter rejected, a file whose read failed
\* and a file that was written with its content
C6_Witness ==
    /\ pc = "done"
    /\ Failed # {}
    /\ files_skipped > Cardinality(Failed)
    /\ files_processed > 0

(* ------------------------------------------------------------------------ *)
(* C7.  Fatal errors.                                                         *)
(* ------------------------------------------------------------------------ *)

\* C7: a run raises to its caller only when the output path could not be
\* opened, and then no directory was listed, no source file was read and no
\* summary was printed; a run that opened its output ends with the summary.
C7_RaisesOnlyWhenOpenFails ==
    /\ pc = "raised" =>
         /\ stream = "unopened"
         /\ visited = <<>>
         /\ readLog = <<>>
         /\ ~ summary.printed
    /\ stream = "closed" => pc = "done" /\ summary.printed

\* C7 but for the file names the output stream cannot encode
C7_UnlessUnencodable ==
    /\ (pc = "raised" /\ stream # "unopened") =>
          /\ files # <<>>
          /\ ~ Encodable(Append(RelPath(current_dir, tree.root), Head(files)))
          /\ ~ summary.printed
    /\ (pc = "raised" /\ stream = "unopened") =>
          visited = <<>> /\ readLog = <<>> /\ ~ summary.printed

(* ------------------------------------------------------------------------ *)
(* C8.  The directory inclusion gate.                                         *)
(* ------------------------------------------------------------------------ *)

\* the elements of a sequence
Range(seq) == {seq[i] : i \in 1..Len(seq)}

\* C8: the step that visits a directory failing the gate writes nothing, reads
\* nothing, counts nothing and loops over none of its files, and puts every
\* child that is not excluded on the walk; the step that visits a directory
\* passing the gate loops over all its files; so files are written and read
\* only in directories that pass the gate themselves, and a finished run has
\* visited every directory not under an excluded one and holds a header for
\* every file that passes the file filters in a directory that passes the gate,
\* whatever its ancestors do.
C8_GateIsPerDirectory ==
    /\ [](\A p \in HeaderPaths \cup ReadPaths : GateOpen(DirOf(p)))
    /\ [](pc = "done" =>
            /\ VisitedDirs = {d \in Directories : ~ UnderExcluded(d)}
            /\ \A d \in VisitedDirs : \A p \in FilesIn(d) :
                  (GateOpen(d) /\ NameAdmitted(FileName(p))) => p \in HeaderPaths)
    /\ [][visited' # visited =>
            LET d == RelPath(Head(stack), tree.root)
            IN IF GateOpen(d)
               THEN files' = tree.ls[d].files
               ELSE /\ files' = <<>>
                    /\ pc' = "walk"
                    /\ output' = output
                    /\ readLog' = readLog
                    /\ files_processed' = files_processed
                    /\ files_skipped' = files_skipped
                    /\ \A n \in Range(tree.ls[d].subdirs) :
                          n \notin Strings(call.excluded_directories)
                              => Append(Head(stack), n) \in Range(stack')]_vars

\* a finished run that wrote a file of a directory that passes the gate and
\* lies under a directory that fails it and has files of its own
C8_Witness ==
    /\ pc = "done"
    /\ \E p \in HeaderPaths :
          /\ DirOf(p) # <<>>
          /\ GateOpen(DirOf(p))
          /\ ~ GateOpen(DirOf(DirOf(p)))
          /\ tree.ls[DirOf(DirOf(p))].files # <<>>

(* ------------------------------------------------------------------------ *)
(* C9.  Ordering.                                                             *)
(* ------------------------------------------------------------------------ *)

\* path p lies in the subtree of directory d
Under(p, d) == Len(p) > Len(d) /\ SubSeq(p, 1, Len(d)) = d

\* the position of a file in the listing of its directory
ListingIndex(p) ==
    CHOOSE i \in 1..Len(tree.ls[DirOf(p)].files) : tree.ls[DirOf(p)].files[i] = FileName(p)

\* the blocks of the subtrees of two sibling directories are not interleaved
NotInterleaved(H) ==
    \A A, B \in Directories :
        (A # <<>> /\ B # <<>> /\ A # B /\ DirOf(A) = DirOf(B)) =>
            ~ \E i, j, k \in 1..Len(H) :
                i < j /\ j < k /\ Under(H[i], A) /\ Under(H[j], B) /\ Under(H[k], A)

\* C9: the File lines of the output are those of the surviving files in the
\* order of a depth-first walk (a prefix of it while the run goes on, all of
\* it when the run has finished); the blocks of the subtrees of two sibling
\* directories are never interleaved, and the files of one directory come in
\* the order of its listing.
C9_Ordering ==
    Opened =>
        /\ Len(HeaderOrder) <= Len(AdmittedOrder)
        /\ HeaderOrder = SubSeq(AdmittedOrder, 1, Len(HeaderOrder))
        /\ pc = "done" => HeaderOrder = AdmittedOrder
        /\ NotInterleaved(HeaderOrder)
        /\ \A i, j \in 1..Len(HeaderOrder) :
              (i < j /\ DirOf(HeaderOrder[i]) = DirOf(HeaderOrder[j]))
                  => ListingIndex(HeaderOrder[i]) < ListingIndex(HeaderOrder[j])

\* a finished run that wrote files of two sibling directories, one of them in
\* a subdirectory of its own, and two files of one directory
C9_Witness ==
    /\ pc = "done"
    /\ \E A, B \in Directories :
          /\ A # <<>> /\ B # <<>> /\ A # B /\ DirOf(A) = DirOf(B)
          /\ \E p \in HeaderPaths : Under(p, A) /\ DirOf(p) # A
          /\ \E p \in HeaderPaths : DirOf(p) = A
          /\ \E p \in HeaderPaths : Under(p, B)
    /\ \E p, q \in HeaderPaths : p # q /\ DirOf(p) = DirOf(q)

(* ------------------------------------------------------------------------ *)
(* C10.  The life of the output stream.                                       *)
(* ------------------------------------------------------------------------ *)

\* C10: the output path is opened at most once, and before the first directory
\* is visited; the content of the output changes only while the stream is open
\* (or by the truncation of the open itself); a closed stream is not reopened;
\* a run that has ended, with or without failed reads, has no open stream, and
\* the summary is printed only after the stream was closed.
C10_StreamLifecycle ==
    /\ [](opens <= 1)
    /\ [](visited # <<>> => opens = 1)
    /\ [](stream # "unopened" => opens = 1)
    /\ [](pc \in {"done", "raised"} => stream # "open")
    /\ [](summary.printed => stream = "closed")
    /\ [][/\ output' # output =>
               \/ stream = "open"
               \/ stream = "unopened" /\ stream' = "open" /\ output' = <<>>
          /\ stream = "closed" => stream' = "closed"
          /\ (stream = "open" /\ stream' = "closed") => pc' \in {"done", "raised"}]_vars

\* a finished run in which a read failed: the stream is closed and the summary
\* printed
C10_Witness ==
    /\ pc = "done"
    /\ Failed # {}
    /\ files_processed > 0
    /\ stream = "closed"
    /\ summary.printed

====
